---- MODULE Spec2Model ----
(***************************************************************************)
(* A model of bronx.syntax.externalcode (ExternalCodeImportChecker) and of *)
(* bronx.compat.itertools (pairwise).                                      *)
(*                                                                         *)
(* Python values are written as strings: "None", "True", "False"; an       *)
(* exception is the name of its class.  A dotted version string such as    *)
(* "2.0.rc" is the sequence of its dot-separated components, a numeric     *)
(* component being its integer value and any other component NonDigit.     *)
(***************************************************************************)
EXTENDS Integers, Sequences, FiniteSets, TLC

VARIABLES
    nickname,       \* self.nickname
    _checked_out,   \* self._checked_out: "None", "True" or "False"
    _register,      \* self._register: a dict, as a function from keys to values
    phase,          \* where the with-block is: "new", "inblock", "exited"
    exit_exc,       \* the error the with-block exited with ("NoExit" before)
    last,           \* the last operation: its arguments, result and raised error
    decorator,      \* the decorator returned by disabled_if_unavailable(**kwargs)
    target,         \* the object bound to the last decorated definition
    pw_iterable,    \* pairwise: the input
    pw_iter,        \* pairwise: the zip/tee iterator returned
    pw_out,         \* pairwise: the pairs yielded so far
    pw_pc           \* pairwise: "idle", "iterating", "done"

vars == <<nickname, _checked_out, _register, phase, exit_exc, last, decorator, target,
          pw_iterable, pw_iter, pw_out, pw_pc>>

checker_vars == <<nickname, _checked_out, _register, phase, exit_exc>>
deco_vars == <<decorator, target>>
pw_vars == <<pw_iterable, pw_iter, pw_out, pw_pc>>

----------------------------------------------------------------------------
(* Input domains *)

\* The longest input sequence handed to pairwise.
MaxLen == 3

\* The elements of the sequences handed to pairwise.
Elems == {1, 2, 3}

\* A component of a version string that str.isdigit() rejects ("rc", "dev").
NonDigit == -1

Nicknames == {"external", "anypackage"}

\* Requirement keywords: the two spellings of the version check, and another.
Keys == {"version", "v", "otherthing"}

\* Keys the caller writes into the registry.
RegKeys == {"version", "otherthing"}

\* "1", "1.0", "2", "2.rc"
Versions == {<<1>>, <<1, 0>>, <<2>>, <<2, NonDigit>>}

Things == {0, 1}

ValuesOf(k) == IF k \in {"version", "v"} THEN Versions ELSE Things

\* The error types a with-block can end with; "None" is a normal end.
BlockErrors == {"None", "ImportError", "ModuleNotFoundError", "ValueError"}

\* Keyword arguments keep the order of the call: a sequence of <<key, value>>
\* pairs with distinct keys.
KeyOrders ==
    {ks \in UNION {[1..n -> Keys] : n \in 0..Cardinality(Keys)} :
        \A i, j \in DOMAIN ks : i # j => ks[i] # ks[j]}

\* Every assignment of values to the keys ks, in that order.
RECURSIVE requirements_over(_)
requirements_over(ks) ==
    IF ks = <<>> THEN {<<>>}
    ELSE {Append(r, <<ks[Len(ks)], v>>) :
             r \in requirements_over(SubSeq(ks, 1, Len(ks) - 1)),
             v \in ValuesOf(ks[Len(ks)])}

Requirements == UNION {requirements_over(ks) : ks \in KeyOrders}

----------------------------------------------------------------------------
(* Python evaluation results *)

Return(v) == [raised |-> "None", value |-> v]

Raise(e) == [raised |-> e, value |-> "NoValue"]

Bool(b) == IF b THEN "True" ELSE "False"

NoOp == [op |-> "none", arg |-> "None", result |-> "None", raised |-> "None"]

NoTarget == [kind |-> "none"]

NoDecorator == [pending |-> FALSE]

----------------------------------------------------------------------------
(* version_cb: the version processing defined in the module *)
(* distutils' LooseVersion and packaging's parse, which the module takes     *)
(* instead when the interpreter provides them, are not part of the          *)
(* repository; all three compare dotted numbers component by component.     *)

\* re.sub(r'(\.0+)*$', '', version1): trailing components made of zeros are
\* dropped, but never the first component, which no dot precedes.
RECURSIVE strip_trailing_zeros(_)
strip_trailing_zeros(s) ==
    IF Len(s) > 1 /\ s[Len(s)] = 0
    THEN strip_trailing_zeros(SubSeq(s, 1, Len(s) - 1))
    ELSE s

IsDigit(x) == x # NonDigit

version_cb(version1) == SelectSeq(strip_trailing_zeros(version1), IsDigit)

\* Python's tuple comparison a >= b: lexicographic, a proper prefix is smaller.
RECURSIVE tuple_ge(_, _)
tuple_ge(a, b) ==
    IF b = <<>> THEN TRUE
    ELSE IF a = <<>> THEN FALSE
    ELSE IF Head(a) # Head(b) THEN Head(a) > Head(b)
    ELSE tuple_ge(Tail(a), Tail(b))

----------------------------------------------------------------------------
(* ExternalCodeImportChecker: the requirement checks *)

\* Mutant: the registered version must be strictly greater.
_version_check_strict(reg, minimal_version) ==
    IF "version" \notin DOMAIN reg
    THEN Raise("RuntimeError")
    ELSE Return(Bool(/\ tuple_ge(version_cb(reg["version"]), version_cb(minimal_version))
                     /\ version_cb(reg["version"]) # version_cb(minimal_version)))

_version_check(reg, minimal_version) ==
    IF "version" \notin DOMAIN reg
    THEN Raise("RuntimeError")
    ELSE Return(Bool(tuple_ge(version_cb(reg["version"]), version_cb(minimal_version))))

_item_check(reg, itemname, value) ==
    IF itemname \notin DOMAIN reg
    THEN Raise("RuntimeError")
    ELSE Return(Bool(reg[itemname] = value))

\* One requirement of the loop of _kwargs_check.
requirement_check(reg, k, v) ==
    IF k \in {"version", "v"} THEN _version_check(reg, v) ELSE _item_check(reg, k, v)

\* The loop of _kwargs_check from item i on.  `accumulate and check(...)` does
\* not evaluate the check once accumulate is False.
RECURSIVE kwargs_loop(_, _, _, _)
kwargs_loop(reg, kwargs, i, accumulate) ==
    IF i > Len(kwargs) THEN Return(accumulate)
    ELSE IF accumulate = "False" THEN kwargs_loop(reg, kwargs, i + 1, "False")
    ELSE LET r == requirement_check(reg, kwargs[i][1], kwargs[i][2])
         IN  IF r.raised # "None" THEN r
             ELSE kwargs_loop(reg, kwargs, i + 1, r.value)

_kwargs_check(reg, kwargs) == kwargs_loop(reg, kwargs, 1, "True")

\* Mutant: no test of `self._checked_out is None`; `None and ...` is None.
is_available_unguarded(checked_out, reg, kwargs) ==
    IF checked_out = "None" THEN Return("None")
    ELSE IF checked_out = "False" THEN Return("False")
    ELSE _kwargs_check(reg, kwargs)

is_available(checked_out, reg, kwargs) ==
    IF checked_out = "None" THEN Raise("RuntimeError")
    ELSE IF checked_out = "False" THEN Return("False")
    ELSE _kwargs_check(reg, kwargs)

----------------------------------------------------------------------------
(* ExternalCodeImportChecker: the with-block *)

\* Mutant: `exc_type is ImportError`, which misses the subclasses.
IsImportError_exact(exc_type) == exc_type = "ImportError"

\* issubclass(exc_type, ImportError)
IsImportError(exc_type) == exc_type \in {"ImportError", "ModuleNotFoundError"}

\* Mutant: every error marks the import as failed (the assignment moved out of
\* the issubclass test).
__exit___marks_failed(checked_out, reg, exc_type) ==
    IF exc_type = "None"
    THEN [checked_out |-> "True", register |-> reg, returns |-> "None"]
    ELSE IF IsImportError(exc_type)
    THEN [checked_out |-> "False", register |-> reg, returns |-> "True"]
    ELSE [checked_out |-> "False", register |-> reg, returns |-> "None"]

\* Mutant: a failed import empties the registry.
__exit___clears(checked_out, reg, exc_type) ==
    IF exc_type = "None"
    THEN [checked_out |-> "True", register |-> reg, returns |-> "None"]
    ELSE IF IsImportError(exc_type)
    THEN [checked_out |-> "False", register |-> <<>>, returns |-> "True"]
    ELSE [checked_out |-> checked_out, register |-> reg, returns |-> "None"]

\* __exit__: the new _checked_out and _register, and the value returned to the
\* with statement (None when the method ends without a return).
__exit__(checked_out, reg, exc_type) ==
    IF exc_type = "None"
    THEN [checked_out |-> "True", register |-> reg, returns |-> "None"]
    ELSE IF IsImportError(exc_type)
    THEN [checked_out |-> "False", register |-> reg, returns |-> "True"]
    ELSE [checked_out |-> checked_out, register |-> reg, returns |-> "None"]

\* The with statement: the error goes on to the caller unless __exit__ returned
\* a true value.
Propagated(exc_type, returns) ==
    IF exc_type # "None" /\ returns # "True" THEN exc_type ELSE "None"

InitChecker ==
    /\ nickname \in Nicknames
    /\ _checked_out = "None"
    /\ _register = <<>>
    /\ phase = "new"
    /\ exit_exc = "NoExit"
    /\ last = NoOp
    /\ decorator = NoDecorator
    /\ target = NoTarget

InitPairwiseIdle ==
    /\ pw_iterable = <<>>
    /\ pw_iter = [a |-> 1, b |-> 1]
    /\ pw_out = <<>>
    /\ pw_pc = "unused"

Init == InitChecker /\ InitPairwiseIdle

\* `with echecker as echecker_register:` __enter__ hands out the registry itself.
\* The block is entered once: entering it again is not supported.
Enter ==
    /\ phase = "new"
    /\ phase' = "inblock"
    /\ last' = [op |-> "enter", arg |-> "None", result |-> "_register", raised |-> "None"]
    /\ UNCHANGED <<nickname, _checked_out, _register, exit_exc, deco_vars, pw_vars>>

\* echecker_register.update(k=v): the caller writes the dict that __enter__
\* returned, which is self._register and stays within the caller's reach.
RegisterUpdate(k, v) ==
    /\ phase # "new"
    /\ _register' = [x \in DOMAIN _register \cup {k} |-> IF x = k THEN v ELSE _register[x]]
    /\ last' = [op |-> "update", arg |-> <<k, v>>, result |-> "None", raised |-> "None"]
    /\ UNCHANGED <<nickname, _checked_out, phase, exit_exc, deco_vars, pw_vars>>

\* The with-block ends, normally or with an error of type exc_type.
Exit(exc_type) ==
    /\ phase = "inblock"
    /\ LET r == __exit__(_checked_out, _register, exc_type)
       IN  /\ _checked_out' = r.checked_out
           /\ _register' = r.register
           /\ last' = [op |-> "exit", arg |-> exc_type, result |-> r.returns,
                       raised |-> Propagated(exc_type, r.returns)]
    /\ phase' = "exited"
    /\ exit_exc' = exc_type
    /\ UNCHANGED <<nickname, deco_vars, pw_vars>>

\* echecker.is_available(**kwargs)
IsAvailable(kwargs) ==
    /\ LET r == is_available(_checked_out, _register, kwargs)
       IN  last' = [op |-> "is_available", arg |-> kwargs, result |-> r.value,
                    raised |-> r.raised]
    /\ UNCHANGED <<checker_vars, deco_vars, pw_vars>>

Next ==
    \/ Enter
    \/ \E k \in RegKeys : \E v \in ValuesOf(k) : RegisterUpdate(k, v)
    \/ \E e \in BlockErrors : Exit(e)
    \/ \E kwargs \in Requirements : IsAvailable(kwargs)

Spec == Init /\ [][Next]_vars

----------------------------------------------------------------------------
(* ExternalCodeImportChecker.disabled_if_unavailable *)

\* The message of ExternalCodeUnavailableError is kept as its parts: the
\* nickname and the list of requirement strings handed to
\* join_list_in_proper_english, each string kept as <<key, operator, value>>.
NoMessage == [nickname |-> "", requirements |-> <<>>]

\* The order of Python's string comparison on the keys.
KeyRank(k) == CASE k = "otherthing" -> 1 [] k = "v" -> 2 [] k = "version" -> 3

\* sorted(kwargs.items()): the items in the order of their keys.
RECURSIVE insert_item(_, _)
insert_item(item, items) ==
    IF items = <<>> THEN <<item>>
    ELSE IF KeyRank(item[1]) <= KeyRank(Head(items)[1]) THEN <<item>> \o items
    ELSE <<Head(items)>> \o insert_item(item, Tail(items))

RECURSIVE sorted_items(_)
sorted_items(kwargs) ==
    IF kwargs = <<>> THEN <<>>
    ELSE insert_item(Head(kwargs), sorted_items(Tail(kwargs)))

\* Mutant: the short spelling 'v' of the version key is forgotten.
requirement_string_no_alias(k, v) ==
    <<k, IF k = "version" THEN ">=" ELSE "==", v>>

\* '{!s}>={!s}' for the version keys, '{!s}=={!s}' for the others
requirement_string(k, v) ==
    <<k, IF k \in {"version", "v"} THEN ">=" ELSE "==", v>>

_format_exception_message(nick, kwargs) ==
    IF kwargs = <<>>
    THEN [nickname |-> nick, requirements |-> <<>>]
    ELSE LET items == sorted_items(kwargs)
         IN  [nickname |-> nick,
              requirements |-> [i \in DOMAIN items |->
                                   requirement_string(items[i][1], items[i][2])]]

Kinds == {"function", "class"}

\* A definition as written, before any decorator: a plain function, or a class
\* with a class-level attribute.  `call` is what calling (a function) or
\* instantiating (a class: its __new__) runs.
Definition(kind) ==
    [kind |-> kind,
     id |-> "original",
     __name__ |-> IF kind = "function" THEN "my_function" ELSE "MyClass",
     __doc__ |-> IF kind = "function" THEN "doc of my_function" ELSE "doc of MyClass",
     attribute |-> IF kind = "function" THEN "absent" ELSE "class attribute",
     call |-> "original",
     excmsg |-> NoMessage]

\* A positional argument that is no function and no class, such as a number.
NotCallable ==
    [kind |-> "not callable", id |-> "original", __name__ |-> "absent",
     __doc__ |-> "absent", attribute |-> "absent", call |-> "absent",
     excmsg |-> NoMessage]

\* callable(kargs[0])
Callable(obj) == obj.kind \in Kinds

\* hasattr(func_or_cls, '__new__'): every function and class of Python 3 has it.
HasNew(func_or_cls) == func_or_cls.kind \in Kinds

\* Mutant: the wrapper keeps its own name and docstring.
error_wrap_anonymous(func, excmsg) ==
    [kind |-> "function",
     id |-> "error_wrap",
     __name__ |-> "error_wrap",
     __doc__ |-> "None",
     attribute |-> "absent",
     call |-> "error_wrap",
     excmsg |-> excmsg]

\* error_wrap: a new function that raises, with the name and the docstring of
\* the function it replaces.
error_wrap(func, excmsg) ==
    [kind |-> "function",
     id |-> "error_wrap",
     __name__ |-> func.__name__,
     __doc__ |-> func.__doc__,
     attribute |-> "absent",
     call |-> "error_wrap",
     excmsg |-> excmsg]

\* cls.__new__ = classmethod(error_new): the class itself, its __new__ replaced.
error_new(cls, excmsg) == [cls EXCEPT !.call = "error_new", !.excmsg = excmsg]

\* Mutant: an available function is returned inside a new pass-through wrapper.
actual_disabled_if_unavailable_wrapping(available, nick, kwargs, func_or_cls) ==
    IF func_or_cls.kind # "function" /\ ~HasNew(func_or_cls)
    THEN Raise("TypeError")
    ELSE IF available = "True"
    THEN Return(IF func_or_cls.kind = "function"
                THEN [func_or_cls EXCEPT !.id = "wrapper"]
                ELSE func_or_cls)
    ELSE LET excmsg == _format_exception_message(nick, kwargs)
         IN  IF func_or_cls.kind = "function"
             THEN Return(error_wrap(func_or_cls, excmsg))
             ELSE Return(error_new(func_or_cls, excmsg))

\* The inner function: `available` and `kwargs` are those of the enclosing call.
actual_disabled_if_unavailable(available, nick, kwargs, func_or_cls) ==
    IF func_or_cls.kind # "function" /\ ~HasNew(func_or_cls)
    THEN Raise("TypeError")
    ELSE IF available = "True" THEN Return(func_or_cls)
    ELSE LET excmsg == _format_exception_message(nick, kwargs)
         IN  IF func_or_cls.kind = "function"
             THEN Return(error_wrap(func_or_cls, excmsg))
             ELSE Return(error_new(func_or_cls, excmsg))

\* What disabled_if_unavailable returns when no positional argument is given:
\* the inner function with the values it closes over.
Decorator(available, kwargs) ==
    [pending |-> TRUE, available |-> available, kwargs |-> kwargs]

\* disabled_if_unavailable(*kargs, **kwargs).  kargs is <<>>, or holds the
\* positional argument.
disabled_if_unavailable(checked_out, reg, nick, kargs, kwargs) ==
    IF kargs # <<>> /\ ~Callable(kargs[1]) THEN Raise("ValueError")
    ELSE LET available == is_available(checked_out, reg, kwargs)
         IN  IF available.raised # "None" THEN available
             ELSE IF kargs # <<>>
             THEN actual_disabled_if_unavailable(available.value, nick, kwargs, kargs[1])
             ELSE Return(Decorator(available.value, kwargs))

\* What a call of the object (a function) or an instantiation (a class) does.
call_target(obj) ==
    IF obj.call = "original" THEN Return("returned")
    ELSE [raised |-> "ExternalCodeUnavailableError", value |-> obj.excmsg]

\* The values written into the registry where decorators are followed.
DecoRegistered(k) == IF k = "version" THEN {<<1>>, <<2>>} ELSE Things

\* The values required of each key where decorators are followed.
DecoRequired(k) ==
    CASE k = "version" -> {<<1>>, <<2>>}
      [] k = "v" -> {<<2>>}
      [] k = "otherthing" -> {1}

DecoRequirements ==
    {kwargs \in Requirements :
        \A i \in DOMAIN kwargs : kwargs[i][2] \in DecoRequired(kwargs[i][1])}

Attributes == {"__name__", "__doc__", "attribute"}

\* `@echecker.disabled_if_unavailable` above a definition (no keyword), or any
\* other call disabled_if_unavailable(obj, **kwargs): the name of the definition
\* is bound to what the call returns, and to nothing when it raises.
DecorateDirect(obj, kwargs) ==
    /\ LET r == disabled_if_unavailable(_checked_out, _register, nickname, <<obj>>, kwargs)
       IN  /\ target' = IF r.raised = "None" THEN r.value ELSE NoTarget
           /\ last' = [op |-> "decorate", arg |-> [obj |-> obj, kwargs |-> kwargs],
                       result |-> r.value, raised |-> r.raised]
    /\ decorator' = NoDecorator
    /\ UNCHANGED <<checker_vars, pw_vars>>

\* `echecker.disabled_if_unavailable(**kwargs)`: the first half of
\* `@echecker.disabled_if_unavailable(**kwargs)`.  The model follows one
\* definition at a time: the one decorated before is left behind.
Factory(kwargs) ==
    /\ LET r == disabled_if_unavailable(_checked_out, _register, nickname, <<>>, kwargs)
       IN  /\ decorator' = IF r.raised = "None" THEN r.value ELSE NoDecorator
           /\ last' = [op |-> "factory", arg |-> kwargs, result |-> r.value,
                       raised |-> r.raised]
    /\ target' = NoTarget
    /\ UNCHANGED <<checker_vars, pw_vars>>

\* The decorator returned by the factory is applied to a definition.
Apply(kind) ==
    /\ decorator.pending
    /\ LET r == actual_disabled_if_unavailable(decorator.available, nickname,
                                               decorator.kwargs, Definition(kind))
       IN  /\ target' = IF r.raised = "None" THEN r.value ELSE NoTarget
           /\ last' = [op |-> "apply",
                       arg |-> [obj |-> Definition(kind), kwargs |-> decorator.kwargs,
                                available |-> decorator.available],
                       result |-> r.value, raised |-> r.raised]
    /\ decorator' = NoDecorator
    /\ UNCHANGED <<checker_vars, pw_vars>>

\* The decorated function is called, or the decorated class instantiated.
Call ==
    /\ target.kind \in Kinds
    /\ LET r == call_target(target)
       IN  last' = [op |-> "call", arg |-> "None", result |-> r.value,
                    raised |-> r.raised]
    /\ UNCHANGED <<checker_vars, deco_vars, pw_vars>>

\* An attribute of the decorated object is read.
ReadAttr(a) ==
    /\ target.kind \in Kinds
    /\ target[a] # "absent"
    /\ last' = [op |-> "read", arg |-> a, result |-> target[a], raised |-> "None"]
    /\ UNCHANGED <<checker_vars, deco_vars, pw_vars>>

NextDeco ==
    \/ Enter
    \/ \E k \in RegKeys : \E v \in DecoRegistered(k) : RegisterUpdate(k, v)
    \/ \E e \in BlockErrors : Exit(e)
    \/ IsAvailable(<<>>)
    \/ \E kind \in Kinds : \E kwargs \in DecoRequirements :
          DecorateDirect(Definition(kind), kwargs)
    \/ DecorateDirect(NotCallable, <<>>)
    \/ \E kwargs \in DecoRequirements : Factory(kwargs)
    \/ \E kind \in Kinds : Apply(kind)
    \/ Call
    \/ \E a \in Attributes : ReadAttr(a)

SpecDeco == Init /\ [][NextDeco]_vars

----------------------------------------------------------------------------
(* bronx.compat.itertools.pairwise *)
(* The module tests `sys.version_info.major == 3 and sys.version_info.major  *)
(* < 10`, which is true of every Python 3: the function defined there is    *)
(* the one in use.                                                          *)

\* Mutant: next(b, None) is forgotten.
pairwise_no_advance(iterable) == [a |-> 1, b |-> 1]

\* a, b = itertools.tee(iterable): two iterators over the same input, each with
\* the index of the next element it takes; then next(b, None), which takes one
\* element from b, or nothing (and raises nothing) when there is none.
pairwise(iterable) ==
    [a |-> 1, b |-> IF 1 <= Len(iterable) THEN 2 ELSE 1]

\* One step of zip(a, b): next(a), then next(b); the first iterator that is
\* exhausted ends the zip, an element already taken from a being dropped.
zip_next(iterable, it) ==
    IF it.a > Len(iterable)
    THEN [stop |-> TRUE, it |-> it, item |-> <<>>]
    ELSE IF it.b > Len(iterable)
    THEN [stop |-> TRUE, it |-> [it EXCEPT !.a = @ + 1], item |-> <<>>]
    ELSE [stop |-> FALSE, it |-> [a |-> it.a + 1, b |-> it.b + 1],
          item |-> <<iterable[it.a], iterable[it.b]>>]

InputSequences == UNION {[1..n -> Elems] : n \in 0..MaxLen}

InitPairwise ==
    /\ InitChecker
    /\ pw_iterable \in InputSequences
    /\ pw_iter = [a |-> 1, b |-> 1]
    /\ pw_out = <<>>
    /\ pw_pc = "idle"

\* it = pairwise(iterable)
PairwiseCall ==
    /\ pw_pc = "idle"
    /\ pw_iter' = pairwise(pw_iterable)
    /\ pw_pc' = "iterating"
    /\ UNCHANGED <<checker_vars, last, deco_vars, pw_iterable, pw_out>>

\* next(it): the consumer asks for one more pair.
PairwiseNext ==
    /\ pw_pc = "iterating"
    /\ LET r == zip_next(pw_iterable, pw_iter)
       IN  /\ pw_iter' = r.it
           /\ pw_out' = IF r.stop THEN pw_out ELSE Append(pw_out, r.item)
           /\ pw_pc' = IF r.stop THEN "done" ELSE "iterating"
    /\ UNCHANGED <<checker_vars, last, deco_vars, pw_iterable>>

NextPairwise == PairwiseCall \/ PairwiseNext

SpecPairwise == InitPairwise /\ [][NextPairwise]_vars

----------------------------------------------------------------------------
(* Properties of the with-block and of is_available *)

ImportClass == {"ImportError", "ModuleNotFoundError"}

\* The registry holds what requirement key k is checked against.
Registered(k) ==
    IF k \in {"version", "v"} THEN "version" \in DOMAIN _register
    ELSE k \in DOMAIN _register

AllRegistered(kwargs) == \A i \in DOMAIN kwargs : Registered(kwargs[i][1])

\* Requirement k=v holds of the registry.
Satisfied(k, v) ==
    IF k \in {"version", "v"}
    THEN tuple_ge(version_cb(_register["version"]), version_cb(v))
    ELSE _register[k] = v

AllSatisfied(kwargs) == \A i \in DOMAIN kwargs : Satisfied(kwargs[i][1], kwargs[i][2])

\* C1: leaving the with-block suppresses the error raised in it exactly when it
\* is an import-class error: no error gives outcome succeeded and nothing
\* raised, an import-class error gives outcome failed and nothing raised, any
\* other error reaches the caller as it is.
C1_ExitSuppressesImportErrorsOnly ==
    last.op = "exit" =>
        /\ last.arg = "None" => (_checked_out = "True" /\ last.raised = "None")
        /\ last.arg \in ImportClass => (_checked_out = "False" /\ last.raised = "None")
        /\ last.arg \notin ImportClass \cup {"None"} => last.raised = last.arg

\* C1 witness: a subclass of ImportError was raised in the block and suppressed.
C1_Witness ==
    /\ last.op = "exit"
    /\ last.arg = "ModuleNotFoundError"
    /\ last.raised = "None"
    /\ _checked_out = "False"

\* What is_available is claimed to return once the outcome is set.
ClaimedAnswer(kwargs) ==
    IF _checked_out = "False" THEN "False" ELSE Bool(AllSatisfied(kwargs))

\* C2 as stated: once the with-block has completed, whichever way, and every
\* required key is registered, is_available returns false when the outcome is
\* failed and otherwise the conjunction of the requirement checks.
C2_Original ==
    (phase = "exited" /\ last.op = "is_available" /\ AllRegistered(last.arg)) =>
        /\ last.raised = "None"
        /\ last.result = ClaimedAnswer(last.arg)

\* C2 as amended: the same, for a with-block that ended with no error or with
\* an import-class error.
C2_AvailabilityIsConjunction ==
    (/\ phase = "exited"
     /\ exit_exc \in ImportClass \cup {"None"}
     /\ last.op = "is_available"
     /\ AllRegistered(last.arg)) =>
        /\ last.raised = "None"
        /\ last.result = ClaimedAnswer(last.arg)

\* C2 witness: two requirements or more hold, one of them a 'v' requirement
\* met by a registered version that differs from the required one.
C2_Witness ==
    /\ phase = "exited"
    /\ _checked_out = "True"
    /\ last.op = "is_available"
    /\ Len(last.arg) >= 2
    /\ AllRegistered(last.arg)
    /\ last.result = "True"
    /\ \E i \in DOMAIN last.arg :
          last.arg[i][1] = "v" /\ last.arg[i][2] # _register["version"]

\* C3 as stated: with outcome succeeded, is_available raises a usage error and
\* returns no boolean whenever a required key is not registered, whatever the
\* other requirements and their order.
C3_MissingKeyAlwaysRaises ==
    (last.op = "is_available" /\ _checked_out = "True" /\ ~AllRegistered(last.arg)) =>
        /\ last.raised = "RuntimeError"
        /\ last.result = "NoValue"

\* C4: is_available called while the outcome is not yet attempted raises a
\* usage error, returns nothing, and leaves outcome and registry as they were.
C4_QueryBeforeOutcomeRaises ==
    [][(last'.op = "is_available" /\ _checked_out = "None") =>
          /\ last'.raised = "RuntimeError"
          /\ last'.result = "NoValue"
          /\ _checked_out' = _checked_out
          /\ _register' = _register]_vars

\* C4 witness: the query is made inside the with-block, with requirements.
C4_Witness ==
    /\ phase = "inblock"
    /\ last.op = "is_available"
    /\ Len(last.arg) > 0
    /\ last.raised = "RuntimeError"
    /\ _checked_out = "None"

\* C10 as stated: after the with-block has exited, the registry is empty unless
\* the outcome is succeeded.
C10_Original ==
    (phase = "exited" /\ _checked_out # "True") => _register = <<>>

\* C10 as amended: only the caller's writes change the registry; no operation of
\* the checker, the exit of the with-block on an import-class error included,
\* adds or removes an entry.
C10_OnlyCallerWritesRegistry ==
    [][last'.op # "update" => _register' = _register]_vars

\* C10 witness: the block has just exited on an import-class error and the
\* entries written before the error are still in the registry.
C10_Witness ==
    /\ last.op = "exit"
    /\ last.arg \in ImportClass
    /\ _checked_out = "False"
    /\ DOMAIN _register = RegKeys

----------------------------------------------------------------------------
(* Properties of disabled_if_unavailable *)

\* is_available(**kwargs), asked in the current state, returns false.
UnavailableNow(kwargs) ==
    LET r == is_available(_checked_out, _register, kwargs)
    IN  r.raised = "None" /\ r.value = "False"

\* is_available(**kwargs), asked in the current state, returns true.
AvailableNow(kwargs) ==
    LET r == is_available(_checked_out, _register, kwargs)
    IN  r.raised = "None" /\ r.value = "True"

\* The target is a function or a class whose use has been disabled.
Disabled == target.kind \in Kinds /\ target.call # "original"

\* C5: when is_available is false at decoration time, decorating a function or
\* a class raises nothing; afterwards every call of the function and every
\* instantiation of the class raises ExternalCodeUnavailableError, while the
\* name, the docstring and the class attribute are those of the original and
\* reading them raises nothing.
C5_FailureDeferredToUse ==
    /\ (last.op = "decorate" /\ Callable(last.arg.obj) /\ UnavailableNow(last.arg.kwargs)) =>
          /\ last.raised = "None"
          /\ target.kind = last.arg.obj.kind
          /\ Disabled
    /\ (last.op = "factory" /\ UnavailableNow(last.arg)) =>
          /\ last.raised = "None"
          /\ decorator.pending
          /\ decorator.available = "False"
    /\ (last.op = "apply" /\ last.arg.available = "False") =>
          /\ last.raised = "None"
          /\ target.kind = last.arg.obj.kind
          /\ Disabled
    /\ Disabled =>
          /\ target.__name__ = Definition(target.kind).__name__
          /\ target.__doc__ = Definition(target.kind).__doc__
          /\ target.attribute = Definition(target.kind).attribute
          /\ last.op = "call" => last.raised = "ExternalCodeUnavailableError"
          /\ last.op = "read" =>
                /\ last.raised = "None"
                /\ last.result = Definition(target.kind)[last.arg]

\* C5 witness: a class decorated while unavailable has been instantiated, which
\* raised, and its class attribute is still there.
C5_Witness ==
    /\ target.kind = "class"
    /\ target.call = "error_new"
    /\ target.attribute = "class attribute"
    /\ last.op = "call"
    /\ last.raised = "ExternalCodeUnavailableError"

\* C6: when is_available is true at the time disabled_if_unavailable is
\* evaluated, the function or class given comes back as the very same object,
\* unmodified, whether it was given in the call or to the decorator the call
\* returned; availability is that of the call, so a later use of the target
\* never raises ExternalCodeUnavailableError.
C6_AvailablePassesThrough ==
    /\ (last.op = "decorate" /\ Callable(last.arg.obj) /\ AvailableNow(last.arg.kwargs)) =>
          /\ last.raised = "None"
          /\ last.result = last.arg.obj
          /\ target = last.arg.obj
    /\ (last.op = "factory" /\ AvailableNow(last.arg)) =>
          /\ last.raised = "None"
          /\ decorator.pending
          /\ decorator.available = "True"
    /\ (last.op = "apply" /\ last.arg.available = "True") =>
          /\ last.raised = "None"
          /\ last.result = last.arg.obj
          /\ target = last.arg.obj
    /\ (target.kind \in Kinds /\ target = Definition(target.kind) /\ last.op = "call") =>
          last.raised = "None"

\* C6 witness: a decorator made while the requirements held is applied after
\* the registry has changed so that they no longer hold, and the definition
\* comes back unchanged.
C6_Witness ==
    /\ last.op = "apply"
    /\ last.arg.available = "True"
    /\ Len(last.arg.kwargs) > 0
    /\ ~AvailableNow(last.arg.kwargs)
    /\ target = last.arg.obj

\* The string a requirement is rendered as: key>=value for 'version' and 'v',
\* key==value otherwise.
Rendered(item) ==
    <<item[1], IF item[1] \in {"version", "v"} THEN ">=" ELSE "==", item[2]>>

\* The requirements of kwargs that do not hold of the checker: all of them
\* when the import failed, else those whose key is missing or whose check fails.
Unmet(kwargs) ==
    {i \in DOMAIN kwargs :
        \/ _checked_out # "True"
        \/ ~Registered(kwargs[i][1])
        \/ ~Satisfied(kwargs[i][1], kwargs[i][2])}

Strings(msg) == {msg.requirements[i] : i \in DOMAIN msg.requirements}

\* C7 as stated: the message of a disabled target names the dependency and
\* exactly the requirements that did not hold at decoration time.
C7_Original ==
    (last.op = "decorate" /\ last.raised = "None" /\ Disabled) =>
        /\ target.excmsg.nickname = nickname
        /\ Strings(target.excmsg) =
              {Rendered(last.arg.kwargs[i]) : i \in Unmet(last.arg.kwargs)}

\* The message names the nickname and every requirement of kwargs, once each,
\* in the order of the keys.
NamesAll(msg, kwargs) ==
    /\ msg.nickname = nickname
    /\ Len(msg.requirements) = Len(kwargs)
    /\ Strings(msg) = {Rendered(kwargs[i]) : i \in DOMAIN kwargs}
    /\ \A i, j \in DOMAIN msg.requirements :
          i < j => KeyRank(msg.requirements[i][1]) < KeyRank(msg.requirements[j][1])

\* C7 as amended: the message names the dependency and all the requirements
\* given to disabled_if_unavailable, met or not, in the order of their keys,
\* and the dependency alone when none was given; the error raised by a use of
\* the target carries that message.
C7_MessageNamesAllRequirements ==
    /\ (last.op \in {"decorate", "apply"} /\ last.raised = "None" /\ Disabled) =>
          NamesAll(target.excmsg, last.arg.kwargs)
    /\ Disabled => target.excmsg.nickname = nickname
    /\ (last.op = "call" /\ last.raised = "ExternalCodeUnavailableError") =>
          last.result = target.excmsg

\* C7 witness: the import succeeded, a target was disabled for one unmet
\* requirement, and its message also names a requirement that holds.
C7_Witness ==
    /\ last.op = "decorate"
    /\ Disabled
    /\ _checked_out = "True"
    /\ \E i \in DOMAIN last.arg.kwargs : i \notin Unmet(last.arg.kwargs)
    /\ Len(target.excmsg.requirements) = Len(last.arg.kwargs)

\* C9 as stated: the outcome is not yet attempted until the with-block exits
\* and is succeeded or failed from then on, whichever way the block exits.
C9_Original ==
    /\ phase # "exited" => _checked_out = "None"
    /\ phase = "exited" => _checked_out \in {"True", "False"}

\* C9 as amended: the outcome is not yet attempted until the with-block exits;
\* from then on, whatever is done with the checker, it is succeeded when the
\* block ended with no error, failed when it ended with an import-class error,
\* and still not yet attempted when it ended with any other error.
C9_OutcomeSetOnceByExit ==
    /\ phase # "exited" => _checked_out = "None"
    /\ phase = "exited" =>
          _checked_out = IF exit_exc = "None" THEN "True"
                         ELSE IF exit_exc \in ImportClass THEN "False"
                         ELSE "None"

\* C9 witness: after a failed import a target was decorated and used, and the
\* outcome is still failed.
C9_Witness ==
    /\ phase = "exited"
    /\ exit_exc = "ImportError"
    /\ _checked_out = "False"
    /\ last.op = "call"
    /\ last.raised = "ExternalCodeUnavailableError"

----------------------------------------------------------------------------
(* Properties of pairwise *)

\* The pairs of consecutive elements of S.
ConsecutivePairs(S) ==
    [i \in 1..(IF Len(S) >= 2 THEN Len(S) - 1 ELSE 0) |-> <<S[i], S[i + 1]>>]

\* C8: pairwise(S) yields the max(n-1, 0) pairs (S[i], S[i+1]) in order, none
\* when n is 0 or 1, and ends without an error; while it is being consumed, the
\* pairs yielded so far are the first ones of that sequence.
C8_PairwiseYieldsConsecutivePairs ==
    /\ pw_pc = "done" => pw_out = ConsecutivePairs(pw_iterable)
    /\ pw_pc = "iterating" =>
          /\ Len(pw_out) <= Len(ConsecutivePairs(pw_iterable))
          /\ pw_out = SubSeq(ConsecutivePairs(pw_iterable), 1, Len(pw_out))

\* C8 witness: a sequence of three elements or more has been consumed to its end.
C8_Witness ==
    /\ pw_pc = "done"
    /\ Len(pw_iterable) >= 3
    /\ Len(pw_out) = Len(pw_iterable) - 1

====
